---- MODULE Spec2Model ----
(***************************************************************************)
(* A state-machine model of the block editor: src/editor.js (scene state,  *)
(* placeBlockAt, updateJSON, the pointer handlers, the delete handlers)    *)
(* and the UI wiring of src/unnamed/part_000 (the JSON normalizer and the  *)
(* apply / remove / clear handlers).                                       *)
(*                                                                         *)
(* Number representation.  JavaScript numbers are modelled by integers in  *)
(* fixed-point units chosen so that every value the handlers compute from  *)
(* the modelled inputs is exact:                                           *)
(*   - lengths and coordinates are stored DOUBLED (Num(n) = 2n), so that   *)
(*     the half-unit centres  py + 1 + sy/2  stay integers;                *)
(*   - block sizes handed to placeBlockAt are whole numbers (every caller  *)
(*     passes Math.round(..) or the rounded size input) and are stored     *)
(*     as plain integers in userData.S;                                    *)
(*   - colour components are stored in units of 1/255000 (Col(t) is t      *)
(*     thousandths), so that both x/255 and 3-decimal rounding are exact;  *)
(*   - transparency is stored in ten-thousandths.                          *)
(* JavaScript objects are modelled by a heap: mesh maps a mesh id to its   *)
(* userData, and blocksGroup, selectedMesh and activeGrow.mesh hold ids.   *)
(* An absent reference is the id 0, null/undefined optional values are the *)
(* empty tuple, and a null material name is the empty string.              *)
(***************************************************************************)
EXTENDS Integers, Sequences, FiniteSets, TLC

VARIABLES
  blocksGroup,           \* Seq of mesh ids: blocksGroup.children (editor.js:192)
  mesh,                  \* heap: id -> userData of every mesh still referenced
  jsonOut,               \* the #jsonOut textarea, as the value its text parses to
  selectedMesh,          \* id or 0 (editor.js:197)
  isDraggingGrow,        \* editor.js:198
  activeGrow,            \* editor.js:199 (NoGrow when null)
  growHandlesGroup,      \* Seq of handles (editor.js:193)
  previewGroup,          \* Seq of preview boxes (editor.js:194)
  toolMode,              \* editor.js:204 ("none" is null)
  placeMode,             \* editor.js:219
  isPainting,            \* editor.js:225
  paintedMap,            \* set of mesh ids that are keys of paintedMap (editor.js:227)
  paintMarkers,          \* number of paint marker circles in the scene (editor.js:241)
  currentColorOverride,  \* rgb triple or Null (editor.js:285)
  selectedMaterialName,  \* "" or a registry name (editor.js:1339)
  controls,              \* [enableRotate, enablePan] of the OrbitControls
  sizeInput,             \* value of the #size input, a whole number
  snapCall               \* the evaluation of snap in hand: value, unit and result

vars == <<blocksGroup, mesh, jsonOut, selectedMesh, isDraggingGrow, activeGrow,
          growHandlesGroup, previewGroup, toolMode, placeMode, isPainting,
          paintedMap, paintMarkers, currentColorOverride, selectedMaterialName,
          controls, sizeInput, snapCall>>

-----------------------------------------------------------------------------
(* Bounds of the model *)

\* the store never holds more blocks than this (guards of the placing actions)
MaxBlocks == 2
\* pointer hits on the ground have x in 0..MaxHit (doubled units) and z = 0
MaxHit == 1
\* the largest whole number typed into the size input
MaxSize == 2
\* no block centre is further than this from the ground plane y = 0
MaxY == 4
\* no block centre is further than this from the origin along x or z
MaxPos == 3
\* the scene never holds more paint markers than this
MaxMarkers == 2
\* largest value handed to snap on the snapping bench, doubled
MaxSnap == 12

-----------------------------------------------------------------------------
(* Program constants *)

GRID_UNIT == 3

-----------------------------------------------------------------------------
(* Numbers *)

Num(n) == 2 * n
Col(t) == 255 * t
Null == <<>>
Undefined == <<>>
Some(v) == <<v>>
IsSet(o) == o # <<>>

Max(a, b) == IF a >= b THEN a ELSE b
Min(a, b) == IF a <= b THEN a ELSE b

\* Math.round of the quotient n/d (d > 0): the nearest integer, ties upwards
RoundDiv(n, d) == (2 * n + d) \div (2 * d)

\* Math.round on a doubled value, result doubled
MathRound(v) == Num(RoundDiv(v, 2))

\* a JavaScript value passed as the unit of snap: a number (doubled), or a
\* value of another type (undefined when the argument is omitted)
JsNumber(n) == [type |-> "number", val |-> n]
JsOther(t) == [type |-> t, val |-> 0]

\* editor.js:322: the unit snap works with, doubled
snapUnit(a) == IF a.type = "number" /\ a.val > 0 THEN a.val ELSE Num(GRID_UNIT)

\* a snap that moves up by one unit from the multiple below
SnapToNextAbove(v, u) == (v \div u) * u + u

\* editor.js:324: Math.round(v / unit) * unit, v and u doubled, result doubled
SnapTo(v, u) == RoundDiv(v, u) * u

\* snap(v, unit) for a numeric unit: v and unit doubled, result doubled
snap(v, unit) == SnapTo(v, snapUnit(JsNumber(unit)))

\* snap(v, a) for any JavaScript value a as the unit
snapJs(v, a) == SnapTo(v, snapUnit(a))

\* no evaluation of snap in hand
NoCall == [value |-> 0, unit |-> JsOther("none"), result |-> 0]

\* Math.round(v * 1000) / 1000 on a colour component
Round3(c) == Col(RoundDiv(c, 255))

\* Math.max(0, Math.min(1, v)) on a colour component
Clamp01(c) == Max(0, Min(Col(1000), c))

\* Math.round(v * 1000) / 1000 on a transparency value
RoundT(v) == 10 * RoundDiv(v, 10)

-----------------------------------------------------------------------------
(* The world: the editor's mutable state as one record, so that the        *)
(* handlers, which call each other, are operators from world to world.     *)

World ==
  [blocksGroup |-> blocksGroup, mesh |-> mesh, jsonOut |-> jsonOut,
   selectedMesh |-> selectedMesh, isDraggingGrow |-> isDraggingGrow,
   activeGrow |-> activeGrow, growHandlesGroup |-> growHandlesGroup,
   previewGroup |-> previewGroup, toolMode |-> toolMode, placeMode |-> placeMode,
   isPainting |-> isPainting, paintedMap |-> paintedMap,
   paintMarkers |-> paintMarkers,
   currentColorOverride |-> currentColorOverride,
   selectedMaterialName |-> selectedMaterialName, controls |-> controls,
   sizeInput |-> sizeInput]

\* activeGrow = null
NoGrow == [axis |-> "", dir |-> 0, mesh |-> 0, startCenter |-> <<0, 0, 0>>]

\* the ids some reference can still reach
LiveIds(w) ==
  ({w.blocksGroup[i] : i \in 1..Len(w.blocksGroup)}
     \cup {w.selectedMesh, w.activeGrow.mesh}) \ {0}

\* three.js gives every new mesh an id no other object has; ids are only ever
\* compared for equality, so the model takes the least id that no reference
\* holds and no object of the heap has
Referenced(w) ==
  LiveIds(w) \cup w.paintedMap
    \cup {w.growHandlesGroup[k].of : k \in 1..Len(w.growHandlesGroup)}

NewId(w) ==
  LET used == Referenced(w) \cup DOMAIN w.mesh
  IN  CHOOSE i \in 1..(Cardinality(used) + 1) : i \notin used

\* Ids carry no meaning beyond equality, so every state is kept in one
\* numbering: the children of blocksGroup are 1..n in order, and the ids that
\* are still referenced but no longer in the store follow in their old order.
NewNames(w) ==
  LET n == Len(w.blocksGroup)
      kids == {w.blocksGroup[k] : k \in 1..n}
      rest == Referenced(w) \ kids
  IN  [i \in Referenced(w) \cup {0} |->
         IF i = 0 THEN 0
         ELSE IF i \in kids THEN CHOOSE k \in 1..n : w.blocksGroup[k] = i
         ELSE n + 1 + Cardinality({j \in rest : j < i})]

\* objects nothing refers to are dropped from the heap, the others renumbered
Collect(w) ==
  LET live == LiveIds(w)
      name == NewNames(w)
  IN  IF \A i \in DOMAIN name : name[i] = i
      THEN [w EXCEPT !.mesh = [i \in live |-> w.mesh[i]]]
      ELSE [w EXCEPT
              !.mesh = [k \in {name[i] : i \in live} |->
                          w.mesh[CHOOSE i \in live : name[i] = k]],
              !.blocksGroup = [k \in 1..Len(@) |-> k],
              !.selectedMesh = name[@],
              !.activeGrow = [@ EXCEPT !.mesh = name[@]],
              !.growHandlesGroup = [k \in 1..Len(@) |-> [@[k] EXCEPT !.of = name[@]]],
              !.paintedMap = {name[i] : i \in @}]

-----------------------------------------------------------------------------
(* The material registry (editor.js:262-314).  "Brick" stands for the      *)
(* textured entries, whose material is an object; "Plastic" is the entry   *)
(* whose material is null.                                                 *)

MaterialNames == {"Brick", "Plastic"}
HasTexture(name) == name \in MaterialNames /\ name # "Plastic"

\* the values of placeBlockAt's materialOrColor parameter
AMaterial == [kind |-> "material", rgb |-> Null]
AColor(rgb) == [kind |-> "color", rgb |-> rgb]
Nothing == [kind |-> "none", rgb |-> Null]

DefaultColor == <<Col(950), Col(950), Col(950)>>

-----------------------------------------------------------------------------
(* JSON export: updateJSON (editor.js:456-500) *)

\* the colour normalisation shared by placeBlockAt and updateJSON
NormalizeColor(rgb) ==
  LET needsDivide == \E i \in 1..3 : rgb[i] > Col(1001)
  IN  [i \in 1..3 |-> IF needsDivide THEN Clamp01(rgb[i] \div 255)
                                       ELSE Clamp01(rgb[i])]

\* the mandatory keys and the colour and material keys (editor.js:463-484)
ExportBase(ud) ==
  LET P == <<MathRound(ud.P[1]), MathRound(ud.P[2]) + Num(1), MathRound(ud.P[3])>>
      S == [i \in 1..3 |-> Num(ud.S[i])]
      C == IF ud.C # Null
           THEN [i \in 1..3 |-> Round3(NormalizeColor(ud.C)[i])]
           ELSE Null
      o1 == [P |-> P, S |-> S]
      o2 == IF C # Null THEN o1 @@ [C |-> C] ELSE o1
  IN  IF ud.M # "" THEN o2 @@ [M |-> ud.M] ELSE o2

\* the flags that differ from their defaults, added to object o (editor.js:489-494)
ExportFlagsAlwaysK(ud, o) ==
  LET o4 == IF ud.E = Some(TRUE) THEN o @@ [E |-> TRUE] ELSE o
      o5 == IF IsSet(ud.T) /\ ud.T[1] > 0 THEN o4 @@ [T |-> RoundT(ud.T[1])] ELSE o4
      o6 == IF ud.K # Some(TRUE) THEN o5 @@ [K |-> FALSE] ELSE o5
  IN  IF ud.A = Some(FALSE) THEN o6 @@ [A |-> FALSE] ELSE o6

ExportFlags(ud, o) ==
  LET o4 == IF ud.E = Some(TRUE) THEN o @@ [E |-> TRUE] ELSE o
      o5 == IF IsSet(ud.T) /\ ud.T[1] > 0 THEN o4 @@ [T |-> RoundT(ud.T[1])] ELSE o4
      o6 == IF ud.K = Some(FALSE) THEN o5 @@ [K |-> FALSE] ELSE o5
  IN  IF ud.A = Some(FALSE) THEN o6 @@ [A |-> FALSE] ELSE o6

ExportObject(ud) == ExportFlags(ud, ExportBase(ud))

Serialize(w) == [i \in 1..Len(w.blocksGroup) |-> ExportObject(w.mesh[w.blocksGroup[i]])]

\* the textarea holds text; the model holds what JSON.parse makes of it
JsonArray(arr) == [parse |-> "array", arr |-> arr]

updateJSON(w) == [w EXCEPT !.jsonOut = JsonArray(Serialize(w))]

-----------------------------------------------------------------------------
(* Grow handles (editor.js:512-555) *)

HandleAxes ==
  << [axis |-> "x", dir |-> 1], [axis |-> "x", dir |-> -1],
     [axis |-> "y", dir |-> 1], [axis |-> "y", dir |-> -1],
     [axis |-> "z", dir |-> 1], [axis |-> "z", dir |-> -1] >>

removeGrowHandles(w) == [w EXCEPT !.growHandlesGroup = <<>>, !.previewGroup = <<>>]

createGrowHandlesFor(w, m) ==
  LET w1 == removeGrowHandles(w)
  IN  IF m = 0 THEN w1
      ELSE [w1 EXCEPT !.growHandlesGroup =
              [i \in 1..6 |-> [axis |-> HandleAxes[i].axis, dir |-> HandleAxes[i].dir,
                               of |-> m]]]

updateHandlesPosition(w) ==
  IF w.selectedMesh = 0 THEN w ELSE createGrowHandlesFor(w, w.selectedMesh)

-----------------------------------------------------------------------------
(* placeBlockAt (editor.js:347-453).  px, py, pz are doubled; sx, sy, sz   *)
(* are whole numbers.                                                      *)

BlockColor(override, materialOrColor) ==
  LET blockColorRgb ==
        CASE materialOrColor.kind = "material" -> override
          [] materialOrColor.kind = "color" -> materialOrColor.rgb
          [] OTHER -> DefaultColor
  IN  IF blockColorRgb = Null THEN Null
      ELSE [i \in 1..3 |-> Round3(NormalizeColor(blockColorRgb)[i])]

CenterY(py, sy) == (py + Num(1)) + sy

StoredSize(sx, sy, sz) == <<sx, sy, sz>>

placeBlockAt(w, px, py, pz, sx, sy, sz, materialOrColor, matName) ==
  LET id == NewId(w)
      ud == [P |-> <<px, CenterY(py, sy), pz>>,
             S |-> StoredSize(sx, sy, sz),
             C |-> BlockColor(w.currentColorOverride, materialOrColor),
             M |-> matName,
             E |-> Undefined, T |-> Undefined, K |-> Undefined, A |-> Undefined]
      w1 == [w EXCEPT !.mesh = (id :> ud) @@ @,
                      !.blocksGroup = Append(@, id)]
  IN  updateHandlesPosition(updateJSON(w1))

\* the mesh placeBlockAt returns: the last child of blocksGroup
Placed(w) == w.blocksGroup[Len(w.blocksGroup)]

-----------------------------------------------------------------------------
(* JSON import: normalizeImportedArray (part_000:402-466).  A parsed entry *)
(* is a record holding the keys the text gave it; an entry that is not an  *)
(* object (null, a number, a string) is the record NonObject.  P, S and C  *)
(* values are arrays of numbers.                                           *)

NonObject == [nonObject |-> TRUE]

Has(e, k) == k \in DOMAIN e

\* blockData.K1 || blockData.K2 || blockData.K3, Null when none is there
FirstOf(e, keys) ==
  IF \E i \in 1..Len(keys) : Has(e, keys[i])
  THEN e[keys[CHOOSE i \in 1..Len(keys) :
                /\ Has(e, keys[i])
                /\ \A j \in 1..(i - 1) : ~Has(e, keys[j])]]
  ELSE Null

\* is the entry kept by the normalizer
Importable(e) ==
  /\ ~Has(e, "nonObject")
  /\ FirstOf(e, <<"P", "Position", "Pos">>) # Null
  /\ FirstOf(e, <<"S", "Size">>) # Null

NormalizeEntry(e) ==
  LET posT == FirstOf(e, <<"P", "Position", "Pos">>)
      sizeT == FirstOf(e, <<"S", "Size">>)
      colT == FirstOf(e, <<"C", "Color">>)
      over == colT # Null /\ \E i \in 1..3 : colT[i] > Col(1000)
      rgb == [i \in 1..3 |-> IF over THEN Min(Col(1000), colT[i] \div 255) ELSE colT[i]]
      editable == IF Has(e, "E") THEN e.E
                  ELSE IF Has(e, "Editable") THEN e.Editable ELSE FALSE
      transparency == IF Has(e, "T") THEN e.T
                      ELSE IF Has(e, "Transparency") THEN e.Transparency ELSE 0
      canCollide == IF Has(e, "K") THEN e.K
                    ELSE IF Has(e, "CanCollide") THEN e.CanCollide ELSE TRUE
      anchored == IF Has(e, "A") THEN e.A
                  ELSE IF Has(e, "Anchored") THEN e.Anchored ELSE TRUE
      materialName == IF Has(e, "M") THEN e.M
                      ELSE IF Has(e, "Material") THEN e.Material ELSE ""
      n1 == [P |-> [i \in 1..3 |-> MathRound(posT[i])],
             S |-> [i \in 1..3 |-> MathRound(sizeT[i])]]
      n2 == IF colT # Null THEN n1 @@ [C |-> rgb] ELSE n1
      n3 == IF materialName # "" THEN n2 @@ [M |-> materialName] ELSE n2
      n4 == IF editable THEN n3 @@ [E |-> TRUE] ELSE n3
      n5 == IF transparency > 0 THEN n4 @@ [T |-> transparency] ELSE n4
      n6 == IF ~canCollide THEN n5 @@ [K |-> FALSE] ELSE n5
  IN  IF ~anchored THEN n6 @@ [A |-> FALSE] ELSE n6

normalizeImportedArrayBackwards(arr) ==
  LET keep == SelectSeq(arr, Importable)
  IN  [i \in 1..Len(keep) |-> NormalizeEntry(keep[Len(keep) + 1 - i])]

normalizeImportedArray(arr) ==
  LET keep == SelectSeq(arr, Importable)
  IN  [i \in 1..Len(keep) |-> NormalizeEntry(keep[i])]

-----------------------------------------------------------------------------
(* The apply handler (part_000:469-579) *)

\* the while loop that empties blocksGroup (part_000:484-489)
ClearBlocksSkipped(w) == w

ClearBlocks(w) == [w EXCEPT !.blocksGroup = <<>>]

\* base Y handed to placeBlockAt for an exported centre Y (part_000:546)
ImportBaseY(py, sy) == MathRound(py - sy - Num(1))

\* the material/colour choice of part_000:529-541
ImportMaterialOrColor(materialName, rgb) ==
  IF materialName # "" /\ materialName \in MaterialNames
    THEN IF HasTexture(materialName) THEN AMaterial ELSE Nothing
    ELSE IF rgb # Null THEN AColor(rgb) ELSE Nothing

\* the flags written onto the new mesh (part_000:551-560)
ImportFlags(ud, b, matName, materialOrColor) ==
  LET editable == IF Has(b, "E") THEN b.E ELSE FALSE
      transparency == IF Has(b, "T") THEN b.T ELSE 0
      canCollide == IF Has(b, "K") THEN b.K ELSE TRUE
      anchored == IF Has(b, "A") THEN b.A ELSE TRUE
  IN  [ud EXCEPT
         !.E = Some(editable),
         !.T = IF transparency > 0 THEN Some(transparency) ELSE @,
         !.K = IF ~canCollide THEN Some(FALSE) ELSE @,
         !.A = IF ~anchored THEN Some(FALSE) ELSE @,
         !.M = IF matName # "" THEN matName ELSE @,
         !.C = IF matName = "" /\ materialOrColor.kind = "color"
                 THEN [i \in 1..3 |-> Round3(materialOrColor.rgb[i])] ELSE @]

\* one iteration of normalized.forEach (part_000:494-563)
RecreateBlock(w, b) ==
  LET sx == b.S[1] \div 2
      sy == b.S[2] \div 2
      sz == b.S[3] \div 2
      rgb == IF Has(b, "C") THEN b.C ELSE Null
      materialName == IF Has(b, "M") THEN b.M ELSE ""
      known == materialName # "" /\ materialName \in MaterialNames
      materialOrColor == ImportMaterialOrColor(materialName, rgb)
      matName == IF known THEN materialName ELSE ""
      basePy == ImportBaseY(b.P[2], sy)
      w1 == placeBlockAt(w, MathRound(b.P[1]), MathRound(basePy), MathRound(b.P[3]),
                         sx, sy, sz, materialOrColor, matName)
      m == Placed(w1)
  IN  [w1 EXCEPT !.mesh[m] = ImportFlags(@, b, matName, materialOrColor)]

RECURSIVE RecreateAll(_, _, _)
RecreateAll(w, normalized, i) ==
  IF i > Len(normalized) THEN w
  ELSE RecreateAll(RecreateBlock(w, normalized[i]), normalized, i + 1)

\* an apply handler that forgets editor.setSelected(null)
ApplyParsedKeepingSelection(w, parsed) ==
  LET normalized == normalizeImportedArray(parsed)
      w1 == ClearBlocks(w)
      w2 == removeGrowHandles(w1)
  IN  updateJSON(RecreateAll(w2, normalized, 1))

\* the handler after a successful parse (part_000:480-575)
ApplyParsed(w, parsed) ==
  LET normalized == normalizeImportedArray(parsed)
      w1 == ClearBlocks(w)
      w2 == removeGrowHandles([w1 EXCEPT !.selectedMesh = 0])
  IN  updateJSON(RecreateAll(w2, normalized, 1))

applyJsonClearingFirst(w) ==
  IF w.jsonOut.parse # "array"
  THEN removeGrowHandles([ClearBlocks(w) EXCEPT !.selectedMesh = 0])
  ELSE ApplyParsed(w, w.jsonOut.arr)

applyJson(w) ==
  IF w.jsonOut.parse # "array" THEN w ELSE ApplyParsed(w, w.jsonOut.arr)

-----------------------------------------------------------------------------
(* The upload handler (part_000:375-397).  A chosen file is modelled by     *)
(* what reading it gives: read |-> "none" (no file chosen), "fails"         *)
(* (f.text() rejects) or "text", and text |-> what the text parses to.      *)

NoText == [parse |-> "none", arr |-> <<>>]
NoFile == [read |-> "none", text |-> NoText]
UnreadableFile == [read |-> "fails", text |-> NoText]
FileWith(text) == [read |-> "text", text |-> text]

\* what the handler writes into the JSON area for a text that was read
UploadedText(text) ==
  IF text.parse = "error" THEN text
  ELSE JsonArray(normalizeImportedArray(IF text.parse = "array" THEN text.arr ELSE <<>>))

\* an upload handler that applies the text as soon as it is read
uploadChangeApplying(w, file) ==
  IF file.read # "text" THEN w
  ELSE applyJson([w EXCEPT !.jsonOut = UploadedText(file.text)])

uploadChange(w, file) ==
  IF file.read # "text" THEN w
  ELSE [w EXCEPT !.jsonOut = UploadedText(file.text)]

-----------------------------------------------------------------------------
(* Pointer input.  A pointer event is modelled by what its raycasts return: *)
(*   handle : index into growHandlesGroup of the handle hit first, 0 if none *)
(*   kind   : what intersects[0] of blocks and ground is: "none", "ground"   *)
(*            or "block"                                                     *)
(*   block  : the mesh hit (kind = "block")                                  *)
(*   face   : the face hit: "top", "bottom", "+x", "-x", "+z", "-z"          *)
(*   point  : the hit point, doubled                                         *)
(* Meshes are shown at their resting position (userData.P).                  *)

Position(w, m) == w.mesh[m].P

\* Math.max(1, Math.round(parseFloat(size.value) || 1)) (editor.js:650-651)
PlaceSize(w) == Max(1, IF w.sizeInput = 0 THEN 1 ELSE w.sizeInput)

\* getSelectedMaterial() and the fallback to a colour (editor.js:657-666)
ClickMaterialOrColor(w) ==
  IF HasTexture(w.selectedMaterialName) THEN AMaterial
  ELSE IF w.currentColorOverride # Null THEN AColor(w.currentColorOverride)
  ELSE AColor(DefaultColor)

ClickMatName(w) ==
  IF HasTexture(w.selectedMaterialName) THEN w.selectedMaterialName ELSE ""

\* createPaintMarkerAt (editor.js:230-243)
\* a createPaintMarkerAt without the paintedMap.has test
createPaintMarkerAtAgain(w, m) ==
  [w EXCEPT !.paintedMap = @ \cup {m}, !.paintMarkers = @ + 1]

createPaintMarkerAt(w, m) ==
  IF m \in w.paintedMap THEN w
  ELSE [w EXCEPT !.paintedMap = @ \cup {m}, !.paintMarkers = @ + 1]

\* clearPaintMarkers (editor.js:246-253)
clearPaintMarkers(w) ==
  [w EXCEPT !.paintMarkers = @ - Cardinality(w.paintedMap), !.paintedMap = {}]

\* blocksGroup.remove(m)
RemoveChild(seq, m) == SelectSeq(seq, LAMBDA c : c # m)

\* a drag start that leaves the camera controls as they are
StartDragCameraFree(w, h) ==
  [w EXCEPT !.isDraggingGrow = TRUE,
            !.activeGrow = [axis |-> h.axis, dir |-> h.dir, mesh |-> w.selectedMesh,
                            startCenter |-> Position(w, w.selectedMesh)]]

\* the drag start of editor.js:578-592 and 867-881
StartDrag(w, h) ==
  [w EXCEPT !.isDraggingGrow = TRUE,
            !.activeGrow = [axis |-> h.axis, dir |-> h.dir, mesh |-> w.selectedMesh,
                            startCenter |-> Position(w, w.selectedMesh)],
            !.controls = [enableRotate |-> FALSE, enablePan |-> FALSE]]

\* editor.js:597-633
RescaleSelect(w, hitObj) ==
  LET w1 == [w EXCEPT !.selectedMesh = hitObj,
                      !.sizeInput = w.mesh[hitObj].S[1],
                      !.isPainting = TRUE,
                      !.paintedMap = {}]
  IN  createPaintMarkerAt(w1, hitObj)

\* editor.js:644-669
GroundPlace(w, hit) ==
  IF ~w.placeMode THEN w
  ELSE LET s == PlaceSize(w)
       IN  placeBlockAt(w, snap(hit[1], Num(s)), snap(0, Num(s)), snap(hit[3], Num(s)),
                        s, s, s, ClickMaterialOrColor(w), ClickMatName(w))

\* editor.js:673-688
DestroyClick(w, meshToDelete) ==
  LET w1 == [w EXCEPT !.selectedMesh = IF @ = meshToDelete THEN 0 ELSE @]
      w2 == removeGrowHandles(w1)
      w3 == [w2 EXCEPT !.blocksGroup = RemoveChild(@, meshToDelete)]
  IN  updateJSON(clearPaintMarkers(w3))

\* editor.js:691 and 695-725
TopPlace(w, hitObj, hit) ==
  IF ~w.placeMode THEN w
  ELSE LET s == PlaceSize(w)
           topY == Position(w, hitObj)[2] + w.mesh[hitObj].S[2]
           pyTop == MathRound(topY)
           basePy == pyTop - Num(1)
       IN  placeBlockAt(w, snap(hit[1], Num(s)), snap(basePy, Num(s)), snap(hit[3], Num(s)),
                        s, s, s, ClickMaterialOrColor(w), ClickMatName(w))

\* hasCardinalNeighborAt (editor.js:779-809); x, baseY, z doubled
\* the four cardinal offsets of hasCardinalNeighborAt
CardinalOffsets ==
  {<<GRID_UNIT, 0>>, <<-GRID_UNIT, 0>>, <<0, GRID_UNIT>>, <<0, -GRID_UNIT>>}

\* the test of the inner loop: is the k-th block a neighbour of the cell
MatchesNeighbor(w, k, x, baseY, z) ==
  \E off \in CardinalOffsets :
    LET ud == w.mesh[w.blocksGroup[k]]
        tx == MathRound(x + Num(off[1]))
        tz == MathRound(z + Num(off[2]))
        bHalf == IF ud.S[2] # 0 THEN ud.S[2] ELSE GRID_UNIT
        bBaseY == MathRound(ud.P[2] - bHalf)
    IN  MathRound(ud.P[1]) = tx /\ MathRound(ud.P[3]) = tz /\ bBaseY = baseY

hasCardinalNeighborAt(w, x, baseY, z) ==
  \E k \in 1..Len(w.blocksGroup) : MatchesNeighbor(w, k, x, baseY, z)

\* the target cell of a side-face hit (editor.js:752-776)
SideTarget(w, face, hitPoint) ==
  LET s == PlaceSize(w)
      dx == CASE face = "+x" -> 1 [] face = "-x" -> -1 [] OTHER -> 0
      dz == CASE face = "+z" -> 1 [] face = "-z" -> -1 [] OTHER -> 0
      center == <<hitPoint[1] + dx * s, hitPoint[2], hitPoint[3] + dz * s>>
      pyCenter == MathRound(center[2])
      basePyCandidate == MathRound(pyCenter - s)
  IN  [px |-> snap(center[1], Num(s)), pz |-> snap(center[3], Num(s)),
       basePy |-> basePyCandidate - Num(1)]

\* editor.js:748-829
SidePlace(w, face, hitPoint) ==
  IF ~w.placeMode THEN w
  ELSE LET s == PlaceSize(w)
           t == SideTarget(w, face, hitPoint)
       IN  IF ~hasCardinalNeighborAt(w, t.px, t.basePy, t.pz) THEN w
           ELSE placeBlockAt(w, t.px, snap(t.basePy, Num(s)), t.pz, s, s, s,
                             ClickMaterialOrColor(w), ClickMatName(w))

\* the selection logic of editor.js:854-898; handleAfter is what the second
\* raycast against the new handles returns
SelectClick(w, hitObj, handleAfter) ==
  IF w.selectedMesh = hitObj
  THEN LET w1 == IF w.toolMode = "rescale" THEN createGrowHandlesFor(w, w.selectedMesh)
                 ELSE w
       IN  IF w.toolMode = "rescale" /\ handleAfter \in 1..Len(w1.growHandlesGroup)
           THEN StartDrag(w1, w1.growHandlesGroup[handleAfter])
           ELSE w1
  ELSE removeGrowHandles([w EXCEPT !.selectedMesh = hitObj,
                                   !.sizeInput = w.mesh[hitObj].S[1]])

\* which branch of onPointerDown a ray takes
DownBranch(w, ray) ==
  CASE ray.handle # 0 /\ w.toolMode = "rescale" /\ w.selectedMesh # 0 -> "drag"
    [] w.toolMode = "rescale" /\ ray.kind = "block" -> "rescale"
    [] ray.kind = "ground" -> "ground"
    [] ray.kind = "block" /\ w.toolMode = "destroy" -> "destroy"
    [] ray.kind = "block" /\ ray.face = "top" -> "top"
    [] ray.kind = "block" /\ ray.face \in {"+x", "-x", "+z", "-z"} -> "side"
    [] ray.kind = "block" -> "select"
    [] OTHER -> "miss"

\* onPointerDown (editor.js:558-901)
onPointerDown(w, ray) ==
  LET br == DownBranch(w, ray)
  IN  CASE br = "drag" -> StartDrag(w, w.growHandlesGroup[ray.handle])
        [] br = "rescale" -> RescaleSelect(w, ray.block)
        [] br = "ground" -> GroundPlace(w, ray.point)
        [] br = "destroy" -> DestroyClick(w, ray.block)
        [] br = "top" -> TopPlace(w, ray.block, ray.point)
        [] br = "side" -> SidePlace(w, ray.face, ray.point)
        [] br = "select" -> SelectClick(w, ray.block, ray.handleAfter)
        [] OTHER -> w

-----------------------------------------------------------------------------
(* onPointerMove (editor.js:903-945).  hit is the block under the pointer   *)
(* (0 if none); signed is the displacement of the projected pointer from    *)
(* the origin centre along the drag direction, in hundredths.               *)

PreviewSteps(signed) == Max(0, RoundDiv(signed, 100 * GRID_UNIT))

AxisVec(ag) ==
  <<IF ag.axis = "x" THEN ag.dir ELSE 0,
    IF ag.axis = "y" THEN ag.dir ELSE 0,
    IF ag.axis = "z" THEN ag.dir ELSE 0>>

\* activeGrow.startCenter + axisVec * (i * GRID_UNIT), doubled
StepPos(ag, i) ==
  [k \in 1..3 |-> ag.startCenter[k] + AxisVec(ag)[k] * Num(i * GRID_UNIT)]

\* a pointer-move that also selects the block under the pointer while painting
onPointerMoveSelecting(w, hit, signed) ==
  IF w.toolMode = "rescale" /\ w.isPainting
  THEN IF hit # 0 THEN createPaintMarkerAt([w EXCEPT !.selectedMesh = hit], hit) ELSE w
  ELSE IF ~w.isDraggingGrow \/ w.activeGrow.mesh = 0 THEN w
  ELSE [w EXCEPT !.previewGroup =
          [i \in 1..PreviewSteps(signed) |->
             [pos |-> StepPos(w.activeGrow, i), S |-> w.mesh[w.activeGrow.mesh].S]]]

onPointerMove(w, hit, signed) ==
  IF w.toolMode = "rescale" /\ w.isPainting
  THEN IF hit # 0 THEN createPaintMarkerAt(w, hit) ELSE w
  ELSE IF ~w.isDraggingGrow \/ w.activeGrow.mesh = 0 THEN w
  ELSE [w EXCEPT !.previewGroup =
          [i \in 1..PreviewSteps(signed) |->
             [pos |-> StepPos(w.activeGrow, i), S |-> w.mesh[w.activeGrow.mesh].S]]]

-----------------------------------------------------------------------------
(* onPointerUp (editor.js:947-1012) *)

\* setCurrentColorOverride (editor.js:286-288)
setCurrentColorOverride(w, rgb) == [w EXCEPT !.currentColorOverride = rgb]

\* the material or colour of the committed blocks (editor.js:962-971)
GrowMaterialOrColor(ud) ==
  IF ud.M # "" /\ ud.M \in MaterialNames
    THEN IF HasTexture(ud.M) THEN AMaterial ELSE Nothing
    ELSE IF ud.C # Null THEN AColor(ud.C) ELSE AColor(DefaultColor)

\* the temporary override (editor.js:977-982)
GrowOverride(w, ud) ==
  IF ud.C # Null THEN setCurrentColorOverride(w, ud.C)
  ELSE IF ud.M # "" THEN setCurrentColorOverride(w, Null)
  ELSE w

\* the unit the committed positions are snapped to (editor.js:987-991)
CommitUnit(ud) == Num(GRID_UNIT)

\* one iteration of the commit loop (editor.js:984-995)
CommitStep(w, ag, ud, i) ==
  LET pos == StepPos(ag, i)
      s == ud.S[1]
      baseX == snap(pos[1], CommitUnit(ud))
      baseZ == snap(pos[3], CommitUnit(ud))
      baseY == snap(MathRound(pos[2] - ud.S[2]), CommitUnit(ud))
  IN  placeBlockAt(w, baseX, baseY, baseZ, s, s, s, GrowMaterialOrColor(ud), ud.M)

RECURSIVE CommitAll(_, _, _, _, _)
CommitAll(w, ag, ud, i, count) ==
  IF i > count THEN w
  ELSE CommitAll(CommitStep(w, ag, ud, i), ag, ud, i + 1, count)

\* a commit that leaves the override it has set for the batch
GrowCommitKeepingOverride(w) ==
  LET count == Len(w.previewGroup)
      ag == w.activeGrow
      ud == w.mesh[ag.mesh]
      w1 == IF count > 0 THEN CommitAll(GrowOverride(w, ud), ag, ud, 1, count) ELSE w
  IN  [w1 EXCEPT !.previewGroup = <<>>,
                 !.isDraggingGrow = FALSE,
                 !.activeGrow = NoGrow,
                 !.controls = [enableRotate |-> TRUE, enablePan |-> TRUE]]

\* a commit that places one block less than there are previews
GrowCommitOneShort(w) ==
  LET count == Len(w.previewGroup) - 1
      ag == w.activeGrow
      ud == w.mesh[ag.mesh]
      originalOverride == w.currentColorOverride
      w1 == IF count > 0
            THEN setCurrentColorOverride(
                   CommitAll(GrowOverride(w, ud), ag, ud, 1, count), originalOverride)
            ELSE w
  IN  [w1 EXCEPT !.previewGroup = <<>>,
                 !.isDraggingGrow = FALSE,
                 !.activeGrow = NoGrow,
                 !.controls = [enableRotate |-> TRUE, enablePan |-> TRUE]]

GrowCommit(w) ==
  LET count == Len(w.previewGroup)
      ag == w.activeGrow
      ud == w.mesh[ag.mesh]
      originalOverride == w.currentColorOverride
      w1 == IF count > 0
            THEN setCurrentColorOverride(
                   CommitAll(GrowOverride(w, ud), ag, ud, 1, count), originalOverride)
            ELSE w
  IN  [w1 EXCEPT !.previewGroup = <<>>,
                 !.isDraggingGrow = FALSE,
                 !.activeGrow = NoGrow,
                 !.controls = [enableRotate |-> TRUE, enablePan |-> TRUE]]

UpBranch(w) ==
  CASE w.toolMode = "rescale" /\ w.isPainting -> "paint"
    [] w.isDraggingGrow /\ w.activeGrow.mesh # 0 -> "commit"
    [] OTHER -> "idle"

onPointerUp(w) ==
  CASE UpBranch(w) = "paint" -> [w EXCEPT !.isPainting = FALSE]
    [] UpBranch(w) = "commit" -> GrowCommit(w)
    [] OTHER -> w

-----------------------------------------------------------------------------
(* Deleting: onContextMenu (editor.js:1020-1047), the keydown handler      *)
(* (editor.js:1057-1081), the remove and clear buttons (part_000:322-345)  *)

onContextMenu(w, m) ==
  IF m = 0 THEN w
  ELSE LET w1 == [w EXCEPT !.selectedMesh = IF @ = m THEN 0 ELSE @]
           w2 == removeGrowHandles(w1)
           w3 == [w2 EXCEPT !.blocksGroup = RemoveChild(@, m)]
       IN  updateJSON(clearPaintMarkers(w3))

\* a Delete key handler that leaves the handles and previews in place
onKeyDeleteKeepingHandles(w) ==
  IF w.selectedMesh = 0 THEN w
  ELSE LET w2 == [w EXCEPT !.blocksGroup = RemoveChild(@, w.selectedMesh),
                           !.selectedMesh = 0]
       IN  updateJSON(clearPaintMarkers(w2))

onKeyDelete(w) ==
  IF w.selectedMesh = 0 THEN w
  ELSE LET w1 == removeGrowHandles(w)
           w2 == [w1 EXCEPT !.blocksGroup = RemoveChild(@, w.selectedMesh),
                            !.selectedMesh = 0]
       IN  updateJSON(clearPaintMarkers(w2))

removeBtnClick(w) ==
  IF w.selectedMesh = 0 THEN w
  ELSE LET w1 == [w EXCEPT !.blocksGroup = RemoveChild(@, w.selectedMesh),
                           !.selectedMesh = 0]
       IN  updateJSON(removeGrowHandles(w1))

clearBtnClick(w) ==
  updateJSON(removeGrowHandles([ClearBlocks(w) EXCEPT !.selectedMesh = 0]))

-----------------------------------------------------------------------------
(* The frame tick: the handle upkeep of animate (editor.js:1166-1204) *)

animate(w) ==
  IF w.selectedMesh # 0 /\ ~w.isDraggingGrow
  THEN IF w.toolMode = "rescale"
       THEN IF Len(w.growHandlesGroup) = 0
            THEN createGrowHandlesFor(w, w.selectedMesh)
            ELSE [w EXCEPT !.growHandlesGroup =
                    [i \in 1..Len(@) |-> [@[i] EXCEPT !.of = w.selectedMesh]]]
       ELSE IF Len(w.growHandlesGroup) # 0 THEN removeGrowHandles(w) ELSE w
  ELSE w

-----------------------------------------------------------------------------
(* Tool mode, place mode, colour, material and size controls *)

\* a setToolMode that leaves the painting flag as it is
setToolModeStillPainting(w, mode) ==
  LET w1 == [w EXCEPT !.toolMode = mode]
  IN  IF mode # "rescale" THEN removeGrowHandles(w1) ELSE w1

\* setToolMode (editor.js:205-216)
setToolMode(w, mode) ==
  LET w1 == [w EXCEPT !.toolMode = mode]
      w2 == IF mode # "rescale" THEN [w1 EXCEPT !.isPainting = FALSE, !.paintedMap = {}]
            ELSE w1
  IN  IF mode # "rescale" THEN removeGrowHandles(w2) ELSE w2

\* setActiveTool (part_000:594-657): the active button is the current tool
setActiveTool(w, name) ==
  IF w.toolMode = name THEN setToolMode(w, "none") ELSE setToolMode(w, name)

\* setPlaceMode (editor.js:220-222)
setPlaceMode(w, on) == [w EXCEPT !.placeMode = on]

\* editor.placeMode as wireUI sees it: the value startEditor copied into the
\* object it passed (editor.js:1328)
EditorPlaceModeProperty == TRUE

\* the toggle button of the place panel (part_000:856-875)
placeToggleClick(w) == setPlaceMode(w, ~EditorPlaceModeProperty)

\* a colour swatch or the custom colour (part_000:172-198, 251-284)
colorClick(w, rgb) ==
  LET w1 == setCurrentColorOverride(w, rgb)
      sel == w.selectedMesh
  IN  IF sel = 0 THEN w1
      ELSE updateJSON([w1 EXCEPT !.mesh[sel].C = [i \in 1..3 |-> Round3(rgb[i])],
                                 !.mesh[sel].M = ""])

\* setBlockTransparency (editor.js:1348-1369): value is Null or Some(v), v
\* a number in ten-thousandths; every mesh has a material
\* a setBlockTransparency that leaves the JSON area as it is
setBlockTransparencyStale(w, m, value) ==
  IF m = 0 THEN w
  ELSE IF ~IsSet(value) THEN [w EXCEPT !.mesh[m].T = Undefined]
  ELSE [w EXCEPT !.mesh[m].T = Some(RoundT(Max(0, Min(10000, value[1]))))]

setBlockTransparency(w, m, value) ==
  IF m = 0 THEN w
  ELSE IF ~IsSet(value)
       THEN updateJSON([w EXCEPT !.mesh[m].T = Undefined])
       ELSE updateJSON([w EXCEPT
              !.mesh[m].T = Some(RoundT(Max(0, Min(10000, value[1]))))])

\* setSelectedMaterial (editor.js:1343-1345)
setSelectedMaterial(w, name) ==
  [w EXCEPT !.selectedMaterialName = IF name \in MaterialNames THEN name ELSE ""]

\* a material icon (part_000:77-120)
materialClick(w, name) ==
  LET w1 == setSelectedMaterial(w, name)
      sel == w.selectedMesh
  IN  IF sel = 0 THEN w1
      ELSE IF HasTexture(name)
           THEN updateJSON([w1 EXCEPT !.mesh[sel].M = name])
      ELSE IF w.currentColorOverride = Null THEN w1
      ELSE updateJSON([w1 EXCEPT
             !.mesh[sel].M = "",
             !.mesh[sel].C = [i \in 1..3 |-> Round3(w.currentColorOverride[i])]])

\* the change handler of the size input (part_000:581-588)
sizeChange(w, typed) == [w EXCEPT !.sizeInput = Max(1, IF typed = 0 THEN 1 ELSE typed)]

-----------------------------------------------------------------------------
(* Inputs *)

White == <<Col(1000), Col(1000), Col(1000)>>
\* the custom colour #800000: 128/255, 0, 0
Maroon == <<128 * 1000, 0, 0>>
ColorChoices == {White, Maroon}

ToolNames == {"rescale", "destroy"}

SizeChoices == 1..MaxSize

Faces == {"top", "bottom", "+x", "-x", "+z", "-z"}

\* where on a face a hit lands, as an offset from the middle of the face in
\* half sizes: the middle
HitOffsets == {0}

\* the point of a hit on a face of mesh m, doubled
FacePoint(w, m, face, u, v) ==
  LET c == Position(w, m)
      S == w.mesh[m].S
  IN  CASE face = "top" -> <<c[1] + u * S[1], c[2] + S[2], c[3] + v * S[3]>>
        [] face = "bottom" -> <<c[1] + u * S[1], c[2] - S[2], c[3] + v * S[3]>>
        [] face = "+x" -> <<c[1] + S[1], c[2] + v * S[2], c[3] + u * S[3]>>
        [] face = "-x" -> <<c[1] - S[1], c[2] + v * S[2], c[3] + u * S[3]>>
        [] face = "+z" -> <<c[1] + u * S[1], c[2] + v * S[2], c[3] + S[3]>>
        [] OTHER -> <<c[1] + u * S[1], c[2] + v * S[2], c[3] - S[3]>>

Children(w) == {w.blocksGroup[i] : i \in 1..Len(w.blocksGroup)}

Ray(handle, kind, block, face, point, handleAfter) ==
  [handle |-> handle, kind |-> kind, block |-> block, face |-> face, point |-> point,
   handleAfter |-> handleAfter]

\* a pointer-down whose ray hits the ground at (0,0,0)
GroundHitAtOrigin == Ray(0, "ground", 0, "", <<0, 0, 0>>, 0)

\* the rays a pointer-down can cast in world w.  The handles are raycast only
\* with the rescale tool and a selection, and a handle hit ends the handler, so
\* a ray that hits a handle needs nothing behind it.
Rays(w) ==
  LET handles == IF w.toolMode = "rescale" /\ w.selectedMesh # 0
                 THEN {Ray(h, "none", 0, "", <<0, 0, 0>>, 0) :
                         h \in 1..Len(w.growHandlesGroup)}
                 ELSE {}
      ground == {Ray(0, "ground", 0, "", <<x, 0, 0>>, 0) : x \in 0..MaxHit}
      misses == {Ray(0, "none", 0, "", <<0, 0, 0>>, 0)}
      blocks == UNION {
                  {Ray(0, "block", m, f, FacePoint(w, m, f, uv[1], uv[2]), 0) :
                     f \in Faces, uv \in HitOffsets \X HitOffsets} :
                  m \in Children(w)}
  IN  handles \cup ground \cup misses \cup blocks

\* the rays that hit a handle or a block
BlockRays(w) == {ray \in Rays(w) : ray.handle # 0 \/ ray.kind = "block"}

\* pointer-downs of a placing session: ground hits at x = 0 and x = 2, and
\* hits on every face of every block, at the lower edge and the middle of a
\* side face
PlaceHits == {0, 2}
FaceHeights == {-1, 0}
PlaceRays(w) ==
  {Ray(0, "ground", 0, "", <<Num(x), 0, 0>>, 0) : x \in PlaceHits}
    \cup UNION {{Ray(0, "block", m, f, FacePoint(w, m, f, 0, v), 0) :
                   f \in Faces, v \in FaceHeights} : m \in Children(w)}

\* transparency values handed to setBlockTransparency: null, 0.2504
TransparencyChoices == {Null, Some(2504)}

\* displacements of the projected pointer during a drag, in hundredths
SignedChoices == {149, 150}

\* texts the user types into the JSON area, as what they parse to
Malformed == [parse |-> "error", arr |-> <<>>]
NotAnArray == [parse |-> "object", arr |-> <<>>]

EntryRed == [P |-> <<Num(0), Num(1), Num(0)>>, S |-> <<Num(3), Num(3), Num(3)>>,
             C |-> <<Col(1000), 0, 0>>]
EntryZero == [P |-> <<Num(1), Num(2), Num(0)>>, S |-> <<0, 0, 0>>]
EntryLegacy == [Position |-> <<Num(1), Num(3), Num(0)>>, Size |-> <<Num(2), Num(1), Num(2)>>,
                Color |-> <<Col(255000), Col(128000), 0>>, Material |-> "Brick",
                Editable |-> TRUE, Transparency |-> 2504, CanCollide |-> FALSE,
                Anchored |-> FALSE]
EntryNoPos == [S |-> <<Num(1), Num(1), Num(1)>>, C |-> <<0, 0, Col(1000)>>]
EntryNoSize == [P |-> <<Num(0), Num(1), Num(0)>>]

UserTexts ==
  {Malformed, NotAnArray,
   JsonArray(<<EntryRed>>),
   JsonArray(<<EntryNoPos, EntryZero, NonObject, EntryLegacy, EntryNoSize>>)}

-----------------------------------------------------------------------------
(* Export followed by import *)

\* the export of world w: what updateJSON writes into the JSON area
Export(w) == updateJSON(w).jsonOut.arr

\* the apply handler run on the text updateJSON has just written
RoundTrip(w) == applyJson(updateJSON(w))

\* the apply handler run on a text the user has put into the JSON area
Import(w, text) == applyJson([w EXCEPT !.jsonOut = text])

-----------------------------------------------------------------------------
(* The state machine *)

\* the state startEditor leaves behind, with n in the size input
Start(n) ==
  [blocksGroup |-> <<>>, mesh |-> <<>>, jsonOut |-> JsonArray(<<>>),
   selectedMesh |-> 0, isDraggingGrow |-> FALSE, activeGrow |-> NoGrow,
   growHandlesGroup |-> <<>>, previewGroup |-> <<>>, toolMode |-> "none",
   placeMode |-> TRUE, isPainting |-> FALSE, paintedMap |-> {}, paintMarkers |-> 0,
   currentColorOverride |-> White, selectedMaterialName |-> "",
   controls |-> [enableRotate |-> TRUE, enablePan |-> TRUE], sizeInput |-> n]

\* the current state is world w
Load(w) ==
  /\ blocksGroup = w.blocksGroup
  /\ mesh = w.mesh
  /\ jsonOut = w.jsonOut
  /\ selectedMesh = w.selectedMesh
  /\ isDraggingGrow = w.isDraggingGrow
  /\ activeGrow = w.activeGrow
  /\ growHandlesGroup = w.growHandlesGroup
  /\ previewGroup = w.previewGroup
  /\ toolMode = w.toolMode
  /\ placeMode = w.placeMode
  /\ isPainting = w.isPainting
  /\ paintedMap = w.paintedMap
  /\ paintMarkers = w.paintMarkers
  /\ currentColorOverride = w.currentColorOverride
  /\ selectedMaterialName = w.selectedMaterialName
  /\ controls = w.controls
  /\ sizeInput = w.sizeInput
  /\ snapCall = NoCall

\* the store stays within the bounds of the model
InBounds(w) ==
  /\ Len(w.blocksGroup) <= MaxBlocks
  /\ w.paintMarkers <= MaxMarkers
  /\ \A k \in 1..Len(w.blocksGroup) :
       LET P == w.mesh[w.blocksGroup[k]].P
       IN  /\ -Num(MaxY) <= P[2] /\ P[2] <= Num(MaxY)
           /\ -Num(MaxPos) <= P[1] /\ P[1] <= Num(MaxPos)
           /\ -Num(MaxPos) <= P[3] /\ P[3] <= Num(MaxPos)

\* the next state is world w
Assign(w) ==
  \E c \in {Collect(w)} :
      /\ InBounds(c)
      /\ blocksGroup' = c.blocksGroup
      /\ mesh' = c.mesh
      /\ jsonOut' = c.jsonOut
      /\ selectedMesh' = c.selectedMesh
      /\ isDraggingGrow' = c.isDraggingGrow
      /\ activeGrow' = c.activeGrow
      /\ growHandlesGroup' = c.growHandlesGroup
      /\ previewGroup' = c.previewGroup
      /\ toolMode' = c.toolMode
      /\ placeMode' = c.placeMode
      /\ isPainting' = c.isPainting
      /\ paintedMap' = c.paintedMap
      /\ paintMarkers' = c.paintMarkers
      /\ currentColorOverride' = c.currentColorOverride
      /\ selectedMaterialName' = c.selectedMaterialName
      /\ controls' = c.controls
      /\ sizeInput' = c.sizeInput
      /\ snapCall' = snapCall

PointerDown == \E ray \in Rays(World) : Assign(onPointerDown(World, ray))

PointerMove ==
  \E hit \in Children(World) \cup {0}, signed \in SignedChoices :
    /\ isDraggingGrow => Len(blocksGroup) + PreviewSteps(signed) <= MaxBlocks
    /\ Assign(onPointerMove(World, hit, signed))

PointerUp == \E w \in {onPointerUp(World)} : Assign(w)

ContextMenu == \E m \in Children(World) \cup {0} : Assign(onContextMenu(World, m))

KeyDelete == \E w \in {onKeyDelete(World)} : Assign(w)

RemoveBtn == \E w \in {removeBtnClick(World)} : Assign(w)

ClearBtn == \E w \in {clearBtnClick(World)} : Assign(w)

Animate == \E w \in {animate(World)} : w # World /\ Assign(w)

ToolButton ==
  \E w \in {setActiveTool(World, name) : name \in ToolNames} : Assign(w)

RescaleButton == \E w \in {setActiveTool(World, "rescale")} : Assign(w)

PlaceToggle == \E w \in {placeToggleClick(World)} : Assign(w)

ColorClick == \E w \in {colorClick(World, rgb) : rgb \in ColorChoices} : Assign(w)

MaterialClick ==
  \E w \in {materialClick(World, name) : name \in MaterialNames} : Assign(w)

SizeChange == \E w \in {sizeChange(World, n) : n \in SizeChoices} : Assign(w)

EditJson == \E w \in {[World EXCEPT !.jsonOut = text] : text \in UserTexts} : Assign(w)

ApplyJson == \E w \in {applyJson(World)} : Assign(w)

SetTransparency ==
  \E w \in {setBlockTransparency(World, m, v) :
              m \in Children(World), v \in TransparencyChoices} : Assign(w)

PlaceClick == \E ray \in PlaceRays(World) : Assign(onPointerDown(World, ray))

GroundClick == \E w \in {onPointerDown(World, GroundHitAtOrigin)} : Assign(w)

BlockClick == \E ray \in BlockRays(World) : Assign(onPointerDown(World, ray))

-----------------------------------------------------------------------------
(* The editing session around the JSON area: the user has picked a colour, *)
(* a material and a size, places blocks by clicking with no tool active,   *)
(* selects and removes blocks, and edits and applies the JSON text.        *)

\* the states the palette and the size input can be left in before the
\* first block is placed
Prepared ==
  LET sized == {Start(n) : n \in SizeChoices}
      coloured == {colorClick(w, rgb) : w \in sized, rgb \in ColorChoices}
  IN  coloured \cup {materialClick(w, "Brick") : w \in coloured}

Init == \E w \in Prepared : Load(w)

Next ==
  \/ PointerDown
  \/ RemoveBtn
  \/ ClearBtn
  \/ EditJson
  \/ ApplyJson

Spec == Init /\ [][Next]_vars

-----------------------------------------------------------------------------
(* The editing session around the tools: the scene holds one block, placed *)
(* by a click or imported, placement has been switched off, and the user   *)
(* switches tools and paints, selects, grows and destroys blocks with the  *)
(* pointer.                                                                *)

ImportedScenes == {JsonArray(<<EntryLegacy>>)}

Opened ==
  LET sized == {Start(n) : n \in SizeChoices}
      scenes == {onPointerDown(w, GroundHitAtOrigin) : w \in sized}
                  \cup {Import(w, text) : w \in sized, text \in ImportedScenes}
  IN  {placeToggleClick(w) : w \in scenes}

InitGrow == \E w \in Opened : Load(Collect(w))

NextGrow ==
  \/ PointerDown
  \/ PointerMove
  \/ PointerUp
  \/ Animate
  \/ RescaleButton

SpecGrow == InitGrow /\ [][NextGrow]_vars

-----------------------------------------------------------------------------
(* The building session: starting from the empty scene with size 1, the   *)
(* user clicks the ground at the origin and the faces and handles of       *)
(* blocks, with placement on, switches the rescale tool on and off, grows  *)
(* blocks by dragging handles, and the transparency of blocks is set.      *)

InitTools == Load(Start(1))

NextTools ==
  \/ GroundClick
  \/ BlockClick
  \/ PointerMove
  \/ PointerUp
  \/ Animate
  \/ RescaleButton
  \/ SetTransparency

SpecTools == InitTools /\ [][NextTools]_vars

-----------------------------------------------------------------------------
(* The placing session: the user changes the size input, places blocks by  *)
(* clicking the ground and the faces of blocks with no tool active, and    *)
(* deletes blocks with the right mouse button.                             *)

InitPlace == \E n \in SizeChoices : Load(Start(n))

NextPlace ==
  \/ PlaceClick
  \/ SizeChange
  \/ ContextMenu

SpecPlace == InitPlace /\ [][NextPlace]_vars

-----------------------------------------------------------------------------
(* The destroying session: the placing clicks with the tool buttons, so    *)
(* that the user clicks the ground and the blocks with the rescale tool,   *)
(* the destroy tool and no tool, placement being on throughout.            *)

NextDestroy ==
  \/ PlaceClick
  \/ ToolButton

SpecDestroy == InitPlace /\ [][NextDestroy]_vars

-----------------------------------------------------------------------------
(* The toggling session: the user places blocks by clicking, removes them  *)
(* with the right mouse button and presses the toggle button of the place  *)
(* panel.                                                                  *)

NextToggle ==
  \/ PlaceClick
  \/ PlaceToggle
  \/ ContextMenu

SpecToggle == InitPlace /\ [][NextToggle]_vars

-----------------------------------------------------------------------------
(* The uploading session: the user places blocks by clicking with no tool  *)
(* active, uploads files into the JSON area and applies the JSON area.     *)

\* the files the user uploads
UploadFiles == {NoFile, UnreadableFile} \cup {FileWith(text) : text \in UserTexts}

Upload == \E w \in {uploadChange(World, file) : file \in UploadFiles} : Assign(w)

NextUpload ==
  \/ PlaceClick
  \/ Upload
  \/ ApplyJson

SpecUpload == InitPlace /\ [][NextUpload]_vars

-----------------------------------------------------------------------------
(* The colouring session: the editing session around the tools, in which   *)
(* the user also clicks the colour swatches, with or without a selection.  *)

NextColor ==
  \/ PointerDown
  \/ PointerMove
  \/ PointerUp
  \/ Animate
  \/ RescaleButton
  \/ ColorClick

SpecColor == InitGrow /\ [][NextColor]_vars

-----------------------------------------------------------------------------
(* The deleting session: the scene holds two blocks, one placed on top of  *)
(* the other by clicks, and placement has been switched off.  The user     *)
(* switches tools, selects and paints blocks, starts drags and moves the   *)
(* pointer, and deletes blocks with the destroy tool, the right mouse      *)
(* button, the Delete key and the remove button.                           *)

Stacked ==
  LET first == {onPointerDown(Start(n), GroundHitAtOrigin) : n \in SizeChoices}
      second == {onPointerDown(w, Ray(0, "block", Placed(w), "top",
                                      FacePoint(w, Placed(w), "top", 0, 0), 0)) :
                   w \in first}
  IN  {placeToggleClick(w) : w \in second}

InitDelete == \E w \in Stacked : Load(Collect(w))

NextDelete ==
  \/ PointerDown
  \/ PointerMove
  \/ Animate
  \/ ToolButton
  \/ ContextMenu
  \/ KeyDelete
  \/ RemoveBtn

SpecDelete == InitDelete /\ [][NextDelete]_vars

-----------------------------------------------------------------------------
(* The selecting session: the deleting session with the clear button and   *)
(* the apply button added, so that clicks, deletions, clearing, imports of *)
(* the exported JSON and tool changes interleave in every order.           *)

NextSelect ==
  \/ PointerDown
  \/ PointerMove
  \/ Animate
  \/ ToolButton
  \/ ContextMenu
  \/ KeyDelete
  \/ RemoveBtn
  \/ ClearBtn
  \/ ApplyJson

SpecSelect == InitDelete /\ [][NextSelect]_vars

-----------------------------------------------------------------------------
(* The snapping bench: snap is evaluated on a value and a unit drawn from  *)
(* bounded sets, and evaluated again on its own result with the same unit. *)
(* The editor itself stays as startEditor left it.                         *)

\* values between -MaxSnap/2 and MaxSnap/2 in steps of one half, doubled
SnapValues == -MaxSnap..MaxSnap

\* units: the numbers -1 to 4 in steps of one half (doubled), and values
\* that are not numbers
SnapUnits ==
  {JsNumber(n) : n \in -2..8}
    \cup {JsOther("undefined"), JsOther("string"), JsOther("object")}

editorVars ==
  <<blocksGroup, mesh, jsonOut, selectedMesh, isDraggingGrow, activeGrow,
    growHandlesGroup, previewGroup, toolMode, placeMode, isPainting,
    paintedMap, paintMarkers, currentColorOverride, selectedMaterialName,
    controls, sizeInput>>

SnapValue ==
  \E v \in SnapValues, a \in SnapUnits :
    /\ snapCall' = [value |-> v, unit |-> a, result |-> snapJs(v, a)]
    /\ UNCHANGED editorVars

SnapResult ==
  /\ snapCall # NoCall
  /\ snapCall' = [value |-> snapCall.result, unit |-> snapCall.unit,
                  result |-> snapJs(snapCall.result, snapCall.unit)]
  /\ UNCHANGED editorVars

InitSnap == Load(Start(1))

NextSnap ==
  \/ SnapValue
  \/ SnapResult

SpecSnap == InitSnap /\ [][NextSnap]_vars

-----------------------------------------------------------------------------
(* The claims *)

\* the userData of the k-th block of world w
Block(w, k) == w.mesh[w.blocksGroup[k]]

\* placeBlockAt leaves the flags unset and the apply handler always sets E,
\* so a block with E unset was created by a click or a grow commit
PlacedByHand(ud) == ud.E = Undefined

BuiltByPlacing(w) == \A k \in 1..Len(w.blocksGroup) : PlacedByHand(Block(w, k))

\* the value of an optional key of an exported object
Key(o, k) == IF k \in DOMAIN o THEN Some(o[k]) ELSE Null

\* C1: position round-trip.  For a store built by place operations,
\* exporting it and applying the exported text yields a store whose export
\* has the same P for every block.
PositionRoundTrip ==
  BuiltByPlacing(World) =>
    LET before == Export(World)
        after == Export(RoundTrip(World))
    IN  /\ Len(after) = Len(before)
        /\ \A k \in 1..Len(before) : after[k].P = before[k].P

\* C2: importing [{"P":[0,1,0],"S":[3,3,3],"C":[1,0,0]}] into any prior store
\* leaves exactly one block, and the export written by the import is exactly
\* that text.
RedCubeImport ==
  LET w == Import(World, JsonArray(<<EntryRed>>))
  IN  /\ Len(w.blocksGroup) = 1
      /\ w.jsonOut = JsonArray(<<EntryRed>>)

\* C3: colour/material round-trip.  For any store and whatever colour override
\* is current when the text is applied, export followed by import yields the
\* same C and the same M for every block.
ColourRoundTrip ==
  \A rgb \in ColorChoices :
    LET w == setCurrentColorOverride(World, rgb)
        before == Export(w)
        after == Export(RoundTrip(w))
    IN  /\ Len(after) = Len(before)
        /\ \A k \in 1..Len(before) :
             /\ Key(after[k], "C") = Key(before[k], "C")
             /\ Key(after[k], "M") = Key(before[k], "M")

\* C4: a block placed by a ground hit at (0,0,0) with size 1 is exported
\* with P[1] = 1 (the second component of P).
GroundBlockExportsY1 ==
  (PlaceSize(World) = 1 /\ placeMode /\ DownBranch(World, GroundHitAtOrigin) = "ground") =>
    LET out == onPointerDown(World, GroundHitAtOrigin).jsonOut.arr
    IN  out[Len(out)].P[2] = Num(1)

ArrayTexts(w) == {t \in UserTexts : t.parse = "array"} \cup {updateJSON(w).jsonOut}

FlagKeys == {"E", "T", "K", "A"}

\* C5: size/count/order round-trip.  The export lists one object per block
\* in store order, and export followed by import yields the same number of
\* blocks, in the same order, each with the same S.
SizeCountOrderRoundTrip ==
  LET before == Export(World)
      w == RoundTrip(World)
      after == Export(w)
  IN  /\ Len(before) = Len(blocksGroup)
      /\ Len(w.blocksGroup) = Len(blocksGroup)
      /\ Len(after) = Len(before)
      /\ \A k \in 1..Len(blocksGroup) :
           /\ before[k].S = [i \in 1..3 |-> Num(Block(World, k).S[i])]
           /\ Block(w, k).S = Block(World, k).S
           /\ after[k].S = before[k].S

\* a store of two blocks of different sizes that went through the JSON area:
\* one of them was placed by a click in the custom colour and has since been
\* recreated by the apply handler
SizeRoundTripDone ==
  /\ Len(blocksGroup) = 2
  /\ jsonOut = JsonArray(Export(World))
  /\ Block(World, 1).S # Block(World, 2).S
  /\ \A k \in 1..2 : ~PlacedByHand(Block(World, k))
  /\ \E k \in 1..2 :
       /\ Block(World, k).C = [i \in 1..3 |-> Round3(Maroon[i])]
       /\ Block(World, k).M = ""

\* C6: default omission.  A flag key is in a block's exported object exactly
\* when the block's flag differs from its default (E true, T > 0, K false,
\* A false); a block created by a click exports none of E, T, K, A; and an
\* applied entry yields a flag key only for a flag it gives a non-default
\* value.
DefaultOmission ==
  /\ \A k \in 1..Len(blocksGroup) :
       LET ud == Block(World, k)
           o == Export(World)[k]
       IN  /\ {"P", "S"} \subseteq DOMAIN o
           /\ DOMAIN o \subseteq {"P", "S", "C", "M"} \cup FlagKeys
           /\ "C" \in DOMAIN o <=> ud.C # Null
           /\ "M" \in DOMAIN o <=> ud.M # ""
           /\ "E" \in DOMAIN o <=> ud.E = Some(TRUE)
           /\ "T" \in DOMAIN o <=> (IsSet(ud.T) /\ ud.T[1] > 0)
           /\ "K" \in DOMAIN o <=> ud.K = Some(FALSE)
           /\ "A" \in DOMAIN o <=> ud.A = Some(FALSE)
           /\ PlacedByHand(ud) => DOMAIN o \cap FlagKeys = {}
  /\ \A text \in ArrayTexts(World) :
       LET given == normalizeImportedArray(text.arr)
           out == Import(World, text).jsonOut.arr
       IN  \A k \in 1..Len(given) : DOMAIN out[k] \cap FlagKeys = DOMAIN given[k] \cap FlagKeys

\* the store holds an imported block that is exported with all four flag keys
\* and a block that a grow commit created from it, exported without any
FlagsExported ==
  /\ Len(blocksGroup) = 2
  /\ jsonOut = JsonArray(Export(World))
  /\ FlagKeys \subseteq DOMAIN jsonOut.arr[1]
  /\ PlacedByHand(Block(World, 2))
  /\ DOMAIN jsonOut.arr[2] \cap FlagKeys = {}

\* C7: a malformed import is all-or-nothing.  When the text applied fails to
\* parse, or parses to something that is not an array, the handler leaves the
\* store, the selection and the text as they were.
MalformedApplyChangesNothing ==
  \A text \in UserTexts :
    text.parse # "array" => Import(World, text) = [World EXCEPT !.jsonOut = text]

\* a text that does not parse to an array is in the JSON area while the store
\* holds a block and a block is selected
MalformedTextPending ==
  /\ jsonOut.parse # "array"
  /\ Len(blocksGroup) > 0
  /\ selectedMesh # 0

\* C8: import is replace-all with per-entry skip.  After a successful apply
\* the store holds exactly one block per entry that has a position and a
\* size, in array order, none of the blocks from before the apply remains,
\* and nothing is selected.
ImportReplacesAll ==
  \A text \in ArrayTexts(World) :
    LET kept == SelectSeq(text.arr, Importable)
        given == normalizeImportedArray(text.arr)
        w == Import(World, text)
    IN  /\ Len(given) = Len(kept)
        /\ Len(w.blocksGroup) = Len(kept)
        /\ \A k \in 1..Len(kept) :
             /\ w.blocksGroup[k] \notin Children(World)
             /\ Block(w, k).P[1] = given[k].P[1]
             /\ Block(w, k).P[3] = given[k].P[3]
             /\ [i \in 1..3 |-> Num(Block(w, k).S[i])] = given[k].S
        /\ w.selectedMesh = 0
        /\ w.jsonOut = JsonArray(Export(w))

\* the store holds exactly the two blocks of the five-entry text
ImportWithSkipsDone ==
  /\ Len(blocksGroup) = 2
  /\ jsonOut = JsonArray(Export(World))
  /\ Block(World, 1).S = <<0, 0, 0>>
  /\ Block(World, 2).M = "Brick"
  /\ Block(World, 2).E = Some(TRUE)

\* C9: size invariant.  Every block in the store has a size of at least 1 on
\* each axis.
SizesAtLeastOne ==
  \A k \in 1..Len(blocksGroup) : \A i \in 1..3 : Block(World, k).S[i] >= 1

\* C10: self-consistent grid.  Every block's X and Z are whole multiples of
\* the block's own size on that axis.
OwnGridXZ ==
  \A k \in 1..Len(blocksGroup) :
    \A i \in {1, 3} :
      LET ud == Block(World, k)
      IN  ud.S[i] >= 1 => ud.P[i] % Num(ud.S[i]) = 0

\* the elevation of the bottom face and of the top face of a block, doubled
Bottom(ud) == ud.P[2] - ud.S[2]
Top(ud) == ud.P[2] + ud.S[2]

\* the block a placing click has added to world w
Added(w) == w.mesh[Placed(w)]

\* a block of world w stands at the elevation base, one cell away from the
\* cell (px, pz) along exactly one of +X, -X, +Z, -Z
CardinalNeighbourOfCell(w, px, base, pz) ==
  \E k \in 1..Len(w.blocksGroup) : \E off \in CardinalOffsets :
    /\ Block(w, k).P[1] = px + Num(off[1])
    /\ Block(w, k).P[3] = pz + Num(off[2])
    /\ Bottom(Block(w, k)) = base

\* the cell a side-face hit aims at: its x and z, and the elevation of the
\* bottom face of a block placed in it
SideCell(w, ray) ==
  LET t == SideTarget(w, ray.face, ray.point)
  IN  [px |-> t.px, pz |-> t.pz,
       base |-> snap(t.basePy, Num(PlaceSize(w))) + Num(1)]

\* C11: adjacency rule.  With placement enabled, a side-face hit whose target
\* cell has no cardinal neighbour at the same base elevation leaves the number
\* of blocks unchanged, and one whose target cell has such a neighbour adds
\* exactly one block.
AdjacencyRule ==
  placeMode =>
    \A ray \in PlaceRays(World) :
      DownBranch(World, ray) = "side" =>
        LET c == SideCell(World, ray)
            w == onPointerDown(World, ray)
        IN  IF CardinalNeighbourOfCell(World, c.px, c.base, c.pz)
            THEN Len(w.blocksGroup) = Len(blocksGroup) + 1
            ELSE Len(w.blocksGroup) = Len(blocksGroup)

\* the pointer-downs that hit a block other than the origin block of the drag
OtherBlockRays(w) ==
  {ray \in Rays(w) : ray.handle = 0 /\ ray.kind = "block" /\ ray.block # w.activeGrow.mesh}

\* C12: mutual exclusion of drag and selection.  While a resize drag is in
\* progress, a pointer-down on a block other than the drag's origin block
\* does not change the selected block, does not start painting and does not
\* start a second drag.
DragExcludesSelection ==
  isDraggingGrow =>
    \A ray \in OtherBlockRays(World) :
      LET w == onPointerDown(World, ray)
      IN  /\ w.selectedMesh = selectedMesh
          /\ w.isPainting = isPainting
          /\ w.activeGrow = activeGrow

\* camera rotate and pan are both enabled
CameraFree(w) == w.controls.enableRotate /\ w.controls.enablePan

\* C13: every pointer-up that arrives while a resize drag is in progress ends
\* the drag: after it no drag is in progress, the preview set is empty and
\* camera rotate and pan are enabled, whatever the painting flag, the tool
\* mode and the selection are.
PointerUpEndsDrag ==
  isDraggingGrow =>
    LET w == onPointerUp(World)
    IN  /\ ~w.isDraggingGrow
        /\ w.previewGroup = <<>>
        /\ CameraFree(w)

\* C14: camera-lock invariant. In every state of the editing session the
\* camera's rotate control is disabled exactly when a resize drag is in
\* progress, and so is its pan control.
CameraLock ==
  /\ World.isDraggingGrow <=> ~World.controls.enableRotate
  /\ World.isDraggingGrow <=> ~World.controls.enablePan

\* a resize drag is in progress with preview boxes shown, and the camera is
\* locked
CameraLockedWhileDragging ==
  /\ World.isDraggingGrow
  /\ World.activeGrow.mesh # 0
  /\ World.previewGroup # <<>>
  /\ ~World.controls.enableRotate
  /\ ~World.controls.enablePan

\* the unit is a positive number
PositiveUnit(a) == a.type = "number" /\ a.val > 0

\* C15: snap idempotence.  For every value v and every positive unit u,
\* snap(snap(v,u),u) = snap(v,u) and snap(v,u) is a whole multiple of u; when
\* the unit is omitted, not a number or not positive, snap gives what it
\* gives with the grid unit 3.
SnapIdempotent ==
  snapCall # NoCall =>
    /\ snapJs(snapCall.result, snapCall.unit) = snapCall.result
    /\ PositiveUnit(snapCall.unit) => snapCall.result % snapCall.unit.val = 0
    /\ ~PositiveUnit(snapCall.unit) =>
         /\ snapCall.result = snapJs(snapCall.value, JsNumber(Num(GRID_UNIT)))
         /\ snapCall.result % Num(GRID_UNIT) = 0

\* snap has moved a value to a multiple, other than zero, of a positive unit
\* that is not the grid unit
SnapMovedValue ==
  /\ snapCall # NoCall
  /\ PositiveUnit(snapCall.unit)
  /\ snapCall.unit.val # Num(GRID_UNIT)
  /\ snapCall.result # snapCall.value
  /\ snapCall.result # 0

\* the modes setToolMode can be called with other than rescale
OtherModes == (ToolNames \cup {"none"}) \ {"rescale"}

\* C16: leaving rescale cleans up.  After setToolMode is called with any mode
\* other than rescale, no paint marker remains in the scene, the painting
\* flag is off, and no resize handle and no preview block exists.
LeavingRescaleCleansUp ==
  \A mode \in OtherModes :
    LET w == setToolMode(World, mode)
    IN  /\ w.paintMarkers = 0
        /\ ~w.isPainting
        /\ w.growHandlesGroup = <<>>
        /\ w.previewGroup = <<>>

\* the JSON area shows the serialization of the store of world w
ExportCurrent(w) == w.jsonOut = JsonArray(Serialize(w))

\* the outcomes, in world w, of the operations that change the store or the
\* exported attributes of a block: a pointer-down (click placement), a
\* pointer-down with the destroy tool switched on, a pointer-up (grow
\* commit), a right click, the Delete key, the remove and clear buttons,
\* Apply, and setBlockTransparency
StoreOperations(w) ==
  {onPointerDown(w, ray) : ray \in Rays(w)}
    \cup {onPointerDown(setToolMode(w, "destroy"), ray) : ray \in BlockRays(w)}
    \cup {onPointerUp(w)}
    \cup {onContextMenu(w, m) : m \in Children(w)}
    \cup {onKeyDelete(w), removeBtnClick(w), clearBtnClick(w), applyJson(w)}
    \cup {setBlockTransparency(w, m, v) : m \in Children(w), v \in TransparencyChoices}

\* C17: the export is kept current.  After every operation that changes the
\* store or a block's exported attributes (click placement, grow commit,
\* destroy-click, right-click delete, Delete key, remove button, clear,
\* successful import apply, setBlockTransparency) the text of the JSON area
\* is the serialization of the store as it is at that moment.
ExportKeptCurrent ==
  /\ ExportCurrent(World)
  /\ \A w \in StoreOperations(World) : ExportCurrent(w)

\* a grow has been committed and the transparency of a block has been set:
\* the store holds two blocks one grid unit apart, one of them with a T
GrownAndTransparent ==
  /\ Len(blocksGroup) = 2
  /\ ~isDraggingGrow
  /\ \E k \in 1..2 : IsSet(Block(World, k).T)
  /\ \E i \in 1..3 :
       \/ Block(World, 2).P[i] - Block(World, 1).P[i] = Num(GRID_UNIT)
       \/ Block(World, 1).P[i] - Block(World, 2).P[i] = Num(GRID_UNIT)
  /\ Len(jsonOut.arr) = 2

\* what a drag started from handle h of world w records
DragRecord(w, h) ==
  [axis |-> h.axis, dir |-> h.dir, mesh |-> w.selectedMesh,
   startCenter |-> Position(w, w.selectedMesh)]

\* the outcomes of the handlers other than pointer-down that run during the
\* tool session: pointer-move, pointer-up, the frame tick, the rescale button
OtherSteps(w) ==
  {onPointerMove(w, hit, signed) : hit \in Children(w) \cup {0}, signed \in SignedChoices}
    \cup {onPointerUp(w), animate(w), setActiveTool(w, "rescale")}

\* C18: a resize drag starts only from a pointer-down that hits a resize
\* handle while the tool mode is rescale and a block is selected; the axis,
\* the direction, the origin block and the origin centre of the drag are
\* recorded at that moment, and no handler changes them while the drag goes
\* on.
DragFixedAtStart ==
  /\ \A ray \in Rays(World) :
       LET w == onPointerDown(World, ray)
       IN  /\ (~isDraggingGrow /\ w.isDraggingGrow) =>
                /\ ray.handle # 0
                /\ toolMode = "rescale"
                /\ selectedMesh # 0
                /\ w.activeGrow = DragRecord(World, growHandlesGroup[ray.handle])
           /\ (isDraggingGrow /\ w.isDraggingGrow) => w.activeGrow = activeGrow
  /\ \A w \in OtherSteps(World) :
       /\ w.isDraggingGrow => isDraggingGrow
       /\ (isDraggingGrow /\ w.isDraggingGrow) => w.activeGrow = activeGrow

\* the pointer-downs that hit the top face of a block
TopFaceRays(w) == {ray \in PlaceRays(w) : ray.kind = "block" /\ ray.face = "top"}

\* C19: top-face placement rests on the clicked block.  With placement on
\* and no tool active, a pointer-down on the top face of a block B adds
\* exactly one block, and the bottom face of that block is at the height of
\* the top face of B, whatever the size of B and the size of the new block.
TopPlacementRests ==
  (placeMode /\ toolMode = "none") =>
    \A ray \in TopFaceRays(World) :
      LET w == onPointerDown(World, ray)
      IN  /\ Len(w.blocksGroup) = Len(blocksGroup) + 1
          /\ Bottom(Added(w)) = Top(World.mesh[ray.block])

\* C20: a block added by a side-face placement has the same base elevation
\* as the cardinal neighbour that allowed the placement: every block that
\* passes the neighbour test for the target cell has its bottom face at the
\* elevation of the bottom face of the block that is added.
SidePlacementLevel ==
  placeMode =>
    \A ray \in PlaceRays(World) :
      DownBranch(World, ray) = "side" =>
        LET t == SideTarget(World, ray.face, ray.point)
            w == onPointerDown(World, ray)
        IN  Len(w.blocksGroup) = Len(blocksGroup) + 1 =>
              \A k \in 1..Len(blocksGroup) :
                MatchesNeighbor(World, k, t.px, t.basePy, t.pz) =>
                  Bottom(Block(World, k)) = Bottom(Added(w))

\* the deletes of a block of the store that world w allows, each as the
\* block deleted and the world after it: a click with the destroy tool, a
\* right click, the Delete key and the remove button on the selected block
Deletes(w) ==
  {<<ray.block, onPointerDown(w, ray)>> :
     ray \in {r \in BlockRays(w) : w.toolMode = "destroy" /\ r.kind = "block"}}
    \cup {<<m, onContextMenu(w, m)>> : m \in Children(w)}
    \cup {<<w.selectedMesh, v>> :
            v \in {x \in {onKeyDelete(w), removeBtnClick(w)} :
                     w.selectedMesh \in Children(w)}}

\* seq without its i-th element
Without(seq, i) ==
  [j \in 1..(Len(seq) - 1) |-> IF j < i THEN seq[j] ELSE seq[j + 1]]

HandlesAppear(w, v) == w.growHandlesGroup = <<>> /\ v.growHandlesGroup # <<>>

\* C22: two-click handle reveal.  After the click that first selects a block
\* no resize handle exists, and handles come into existence only through a
\* click on the block that is already selected while the tool mode is
\* rescale: not through a frame tick and not through the placing of another
\* block.
TwoClickReveal ==
  /\ \A ray \in Rays(World) :
       LET w == onPointerDown(World, ray)
       IN  /\ (ray.kind = "block" /\ selectedMesh # ray.block /\ w.selectedMesh = ray.block)
                => w.growHandlesGroup = <<>>
           /\ HandlesAppear(World, w)
                => (ray.kind = "block" /\ ray.block = selectedMesh /\ toolMode = "rescale")
  /\ ~HandlesAppear(World, animate(World))

\* C23: paint markers are reseeded at each rescale click.  Right after a
\* pointer-down that hits a block while the tool mode is rescale, that block
\* is the selected block, painting is on, and exactly one paint marker
\* exists in the scene, the one on the clicked block.
MarkersReseeded ==
  toolMode = "rescale" =>
    \A ray \in {r \in Rays(World) : r.handle = 0 /\ r.kind = "block"} :
      LET w == onPointerDown(World, ray)
      IN  /\ w.selectedMesh = ray.block
          /\ w.isPainting
          /\ w.paintedMap = {ray.block}
          /\ w.paintMarkers = 1

\* C24: painting is idempotent per block.  During a painting drag a
\* pointer-move over a block that the drag has already touched adds no
\* marker, a pointer-move over a block it has not touched yet adds exactly
\* one marker and tracks it, and a pointer-move over no block adds none: the
\* tracked markers are the distinct blocks the drag has touched, a second
\* move over the same block changing nothing.
PaintOncePerBlock ==
  (toolMode = "rescale" /\ isPainting) =>
    \A hit \in Children(World) \cup {0}, signed \in SignedChoices :
      LET w == onPointerMove(World, hit, signed)
          fresh == IF hit = 0 \/ hit \in paintedMap THEN {} ELSE {hit}
      IN  /\ w.paintedMap = paintedMap \cup fresh
          /\ w.paintMarkers = paintMarkers + Cardinality(fresh)
          /\ onPointerMove(w, hit, signed) = w

\* a painting drag has touched two blocks, and both are tracked
TwoBlocksPainted ==
  /\ toolMode = "rescale"
  /\ isPainting
  /\ Cardinality(paintedMap) = 2
  /\ paintedMap = Children(World)

\* a pointer-move in world w reaches the grow preview of editor.js:918-945
MovesPreview(w) ==
  /\ ~(w.toolMode = "rescale" /\ w.isPainting)
  /\ w.isDraggingGrow
  /\ w.activeGrow.mesh # 0

\* C25: resize step count.  On each pointer-move during a resize drag the
\* number of preview blocks is max(0, floor(d / 3)), d being the signed
\* displacement of the projected pointer from the origin centre along the
\* drag direction (here in hundredths) and 3 the grid unit; the previews of
\* the earlier move are replaced.
StepCountFloor ==
  MovesPreview(World) =>
    \A hit \in Children(World) \cup {0}, signed \in SignedChoices :
      Len(onPointerMove(World, hit, signed).previewGroup)
        = Max(0, signed \div (100 * GRID_UNIT))

\* C26: pointer-move is purely visual.  No pointer-move, in any state,
\* changes the store, the selected block, the tool mode or the exported
\* JSON: the world after it differs from the world before it in the paint
\* markers and the preview blocks only.
MoveIsVisual ==
  \A hit \in Children(World) \cup {0}, signed \in SignedChoices :
    LET w == onPointerMove(World, hit, signed)
    IN  /\ w.blocksGroup = blocksGroup
        /\ w.mesh = mesh
        /\ w.selectedMesh = selectedMesh
        /\ w.toolMode = toolMode
        /\ w.jsonOut = jsonOut
        /\ w = [World EXCEPT !.paintedMap = w.paintedMap,
                             !.paintMarkers = w.paintMarkers,
                             !.previewGroup = w.previewGroup]

\* a pointer-move has shown one preview block during the drag of a handle
\* of the only block, and the JSON area still shows that one block
MoveShowedPreview ==
  /\ isDraggingGrow
  /\ ~isPainting
  /\ Len(previewGroup) = 1
  /\ Len(blocksGroup) = 1
  /\ Len(jsonOut.arr) = 1

\* C27: grow commit count.  A pointer-up that ends a resize drag with N
\* preview blocks adds exactly N blocks to the end of the store (none when
\* N = 0), each with the material name and the colour of the origin block;
\* after it no preview remains and no drag is in progress.
CommitAddsPreviews ==
  UpBranch(World) = "commit" =>
    LET w == onPointerUp(World)
        N == Len(previewGroup)
        origin == mesh[activeGrow.mesh]
    IN  /\ Len(w.blocksGroup) = Len(blocksGroup) + N
        /\ SubSeq(w.blocksGroup, 1, Len(blocksGroup)) = blocksGroup
        /\ \A k \in (Len(blocksGroup) + 1)..Len(w.blocksGroup) :
             /\ Block(w, k).M = origin.M
             /\ Block(w, k).C = origin.C
        /\ w.previewGroup = <<>>
        /\ ~w.isDraggingGrow

\* a grow has been committed: the second block stands one grid unit from the
\* first and has its colour and material name, and the colour override is
\* another colour
GrownInOriginColour ==
  /\ Len(blocksGroup) = 2
  /\ ~isDraggingGrow
  /\ previewGroup = <<>>
  /\ Block(World, 2).C = Block(World, 1).C
  /\ Block(World, 2).M = Block(World, 1).M
  /\ currentColorOverride # Block(World, 1).C
  /\ \E i \in 1..3 :
       \/ Block(World, 2).P[i] - Block(World, 1).P[i] = Num(GRID_UNIT)
       \/ Block(World, 1).P[i] - Block(World, 2).P[i] = Num(GRID_UNIT)

\* C28: grow commit restores the colour override.  After a pointer-up that
\* commits a resize drag the global colour override has the value it had
\* just before that pointer-up, whatever the colour and the material of the
\* origin block are.
CommitRestoresOverride ==
  UpBranch(World) = "commit" =>
    onPointerUp(World).currentColorOverride = currentColorOverride

\* a block with a material name has been grown while the colour override
\* was maroon: the override is still maroon and the blocks are not
GrownUnderOverride ==
  /\ Len(blocksGroup) = 2
  /\ ~isDraggingGrow
  /\ Block(World, 1).M = "Brick"
  /\ Block(World, 2).M = "Brick"
  /\ Block(World, 2).C # Maroon
  /\ currentColorOverride = Maroon

\* the pointer-downs that hit the ground, or the top or a side face of a
\* block
PlacingRays(w) ==
  {ray \in Rays(w) :
     /\ ray.handle = 0
     /\ \/ ray.kind = "ground"
        \/ ray.kind = "block" /\ ray.face \in {"top", "+x", "-x", "+z", "-z"}}

\* C29: no normal placement during a drag.  While a resize drag is in
\* progress, a pointer-down that hits the ground or the top or a side face
\* of a block does not add a block to the store.
NoPlacementWhileDragging ==
  isDraggingGrow =>
    \A ray \in PlacingRays(World) :
      Len(onPointerDown(World, ray).blocksGroup) = Len(blocksGroup)

\* C30: file upload never touches the store.  Reading an uploaded file,
\* whether the read fails, the text fails to parse or the text parses,
\* changes nothing but the JSON area: a failed read leaves even that as it
\* is, a text that does not parse is written raw, and a text that parses is
\* written normalized; no block is removed, added or changed.
UploadLeavesStore ==
  \A file \in UploadFiles :
    LET w == uploadChange(World, file)
    IN  /\ w = [World EXCEPT !.jsonOut = w.jsonOut]
        /\ file.read # "text" => w.jsonOut = jsonOut
        /\ (file.read = "text" /\ file.text.parse = "error") => w.jsonOut = file.text
        /\ (file.read = "text" /\ file.text.parse = "array") =>
             w.jsonOut = JsonArray(normalizeImportedArray(file.text.arr))

\* a file with the red cube has been uploaded while the store holds two
\* blocks placed by clicks: the JSON area shows the file, not the store
UploadPending ==
  /\ Len(blocksGroup) = 2
  /\ \A k \in 1..2 : PlacedByHand(Block(World, k))
  /\ jsonOut = UploadedText(JsonArray(<<EntryRed>>))
  /\ jsonOut # JsonArray(Serialize(World))

\* C31: selection validity.  In every reachable state the selected block is
\* either absent or a block currently in the block store, whatever
\* interleaving of clicks, deletions, clearing, imports and tool changes
\* led to the state.
SelectionValid == selectedMesh = 0 \/ selectedMesh \in Children(World)

\* the store was rebuilt by an import and one of the imported blocks has
\* been selected since
ImportedBlockSelected ==
  /\ selectedMesh \in Children(World)
  /\ ~PlacedByHand(mesh[selectedMesh])

\* the removals of the block the drag started from: a destroy click, a
\* right click, the Delete key or the remove button on that block, the
\* clear button, and Apply
OriginRemovals(w) ==
  {d[2] : d \in {x \in Deletes(w) : x[1] = w.activeGrow.mesh}}
    \cup {clearBtnClick(w), applyJson(w)}

\* C32: drag origin validity.  Whenever a resize drag is in progress its
\* origin block is in the block store; removing the origin block during the
\* drag ends the drag, and the pointer-move and pointer-up that follow add
\* no block to the store.
DragOriginInStore ==
  isDraggingGrow =>
    /\ activeGrow.mesh \in Children(World)
    /\ \A w \in OriginRemovals(World) :
         /\ ~w.isDraggingGrow
         /\ \A signed \in SignedChoices :
              Len(onPointerUp(onPointerMove(w, 0, signed)).blocksGroup)
                = Len(w.blocksGroup)

\* C33: resizing only in rescale mode.  A pointer-up adds blocks to the
\* store only while the tool mode is rescale; and if the tool mode is
\* changed away from rescale during a resize drag, the drag is cancelled,
\* the following pointer-move shows no preview and the pointer-up after it
\* adds no block.
ResizeOnlyInRescale ==
  /\ toolMode # "rescale" =>
       Len(onPointerUp(World).blocksGroup) = Len(blocksGroup)
  /\ isDraggingGrow =>
       \A mode \in OtherModes :
         LET w == setToolMode(World, mode)
         IN  /\ ~w.isDraggingGrow
             /\ \A signed \in SignedChoices :
                  LET v == onPointerMove(w, 0, signed)
                  IN  /\ Len(v.previewGroup) = 0
                      /\ Len(onPointerUp(v).blocksGroup) = Len(w.blocksGroup)

\* C34: painting implies rescale.  In every reachable state, if the
\* painting flag is on then the tool mode is rescale.
PaintingImpliesRescale == isPainting => toolMode = "rescale"

\* a block was painted with the rescale tool and, with the pointer still
\* down, the destroy tool was chosen: the marker is still in the scene and
\* the painting flag is off
PaintingEndedByToolChange ==
  /\ toolMode = "destroy"
  /\ ~isPainting
  /\ paintMarkers > 0

\* C35: the placement switch is honoured by every pointer path.  While
\* placement is disabled no pointer-down, pointer-move or pointer-up adds
\* a block to the store.
PlacementSwitchHonoured ==
  ~placeMode =>
    /\ \A ray \in Rays(World) :
         Len(onPointerDown(World, ray).blocksGroup) <= Len(blocksGroup)
    /\ \A hit \in Children(World) \cup {0}, signed \in SignedChoices :
         Len(onPointerMove(World, hit, signed).blocksGroup) <= Len(blocksGroup)
    /\ Len(onPointerUp(World).blocksGroup) <= Len(blocksGroup)

\* C36: destroy mode never adds.  While the tool mode is destroy, a
\* pointer-down never increases the number of blocks in the store, whether
\* its ray hits a block, the ground or nothing.
DestroyNeverAdds ==
  toolMode = "destroy" =>
    \A ray \in Rays(World) \cup PlaceRays(World) :
      Len(onPointerDown(World, ray).blocksGroup) <= Len(blocksGroup)

\* the editor states that differ from w only in ambient state: another
\* colour override, another selected material, another tool mode, and the
\* store as it is or cleared
AmbientVariants(w) ==
  {setToolMode(setSelectedMaterial(setCurrentColorOverride(base, rgb), name), mode) :
     base \in {w, clearBtnClick(w)}, rgb \in ColorChoices,
     name \in MaterialNames \cup {""}, mode \in ToolNames \cup {"none"}}

\* what Apply exports when the JSON area of w holds text
ExportOfApply(w, text) == applyJson([w EXCEPT !.jsonOut = text]).jsonOut

\* C37: import is determined by its input.  Applying the same JSON array
\* from two editor states that differ only in the colour override, the
\* selected material, the tool mode and the prior contents of the store
\* yields stores with identical exports.
ImportDeterminedByInput ==
  \A text \in {t \in UserTexts : t.parse = "array"} :
    \A v \in AmbientVariants(World) :
      ExportOfApply(v, text) = ExportOfApply(World, text)

\* C38: what is previewed is what is committed.  On a grow commit with N
\* preview boxes shown, for every i from 1 to N the i-th block the
\* pointer-up adds to the store has the centre and the size of the i-th
\* preview box, whatever the size and the position of the origin block.
PreviewIsCommitted ==
  (UpBranch(World) = "commit" /\ Len(previewGroup) > 0) =>
    LET w == onPointerUp(World)
        n == Len(blocksGroup)
    IN  /\ Len(w.blocksGroup) = n + Len(previewGroup)
        /\ \A i \in 1..Len(previewGroup) :
             /\ Block(w, n + i).P = previewGroup[i].pos
             /\ Block(w, n + i).S = previewGroup[i].S

\* C39: the place-panel toggle is an involution.  From any state a single
\* press of the toggle button flips the placement flag, and a second press
\* returns it to the value it had before the first.
ToggleInvolution ==
  LET once == placeToggleClick(World)
      twice == placeToggleClick(once)
  IN  /\ once.placeMode = ~placeMode
      /\ twice.placeMode = placeMode

====
